---- MODULE Spec2Model ----
(***************************************************************************)
(* A model of src/src/match.py: the matching engine that pairs bank        *)
(* transactions with attachments (find_attachment, find_transaction) and   *)
(* the helpers it is built from.                                           *)
(*                                                                         *)
(* Representation of Python values:                                        *)
(*   - a string is a sequence of one-character strings, "" is << >>;       *)
(*   - a date string "Y-M-D" is the sequence of its "-"-separated pieces,  *)
(*     each piece one string (<<"2024", "02", "29">>);                     *)
(*   - None, where a string is expected, is the value None below;          *)
(*   - an amount is << >> (None / key absent) or <<n>>, n an integer       *)
(*     count of half-microunits, so that 1e-6 is AmountEps = 2 units;      *)
(*   - a returned record is its 1-based position in the input list and     *)
(*     0 stands for Python's None; RAISED stands for a propagated          *)
(*     exception;                                                          *)
(*   - a float score is the exact rational [n, d] it denotes.  Over the    *)
(*     name and date values the specifications draw from, IEEE double      *)
(*     evaluation of 1 + name_sim + date_bonus orders and thresholds the   *)
(*     scores exactly as the rationals do.                                 *)
(***************************************************************************)
EXTENDS Integers, Sequences, FiniteSets, TLC

\* transactions, attachments: the two lists the caller holds and passes
\* last: the latest call, [op, arg, ret]; ncalls: the calls made so far
VARIABLES transactions, attachments, last, ncalls

vars == <<transactions, attachments, last, ncalls>>

\* Python's None where a str is expected (no string has a two-letter element).
None == <<"None">>

\* Truthiness of an Optional[str]: `if not value`.
Truthy(s) == s # None /\ s # << >>

----------------------------------------------------------------------------
(* Characters *)

LowerLetters == <<"a","b","c","d","e","f","g","h","i","j","k","l","m",
                  "n","o","p","q","r","s","t","u","v","w","x","y","z">>

UpperLetters == <<"A","B","C","D","E","F","G","H","I","J","K","L","M",
                  "N","O","P","Q","R","S","T","U","V","W","X","Y","Z">>

Digits == {"0","1","2","3","4","5","6","7","8","9"}

IndexIn(seq, c) == CHOOSE i \in 1..Len(seq) : seq[i] = c

IsLower(c) == \E i \in 1..Len(LowerLetters) : LowerLetters[i] = c

IsUpper(c) == \E i \in 1..Len(UpperLetters) : UpperLetters[i] = c

\* str.upper() on one character
UpperChar(c) == IF IsLower(c) THEN UpperLetters[IndexIn(LowerLetters, c)] ELSE c

\* str.lower() on one character
LowerChar(c) == IF IsUpper(c) THEN LowerLetters[IndexIn(UpperLetters, c)] ELSE c

Upper(s) == [i \in 1..Len(s) |-> UpperChar(s[i])]

Lower(s) == [i \in 1..Len(s) |-> LowerChar(s[i])]

\* str.isdigit(): non-empty and every character a digit
IsDigitStr(s) == s # << >> /\ \A i \in 1..Len(s) : s[i] \in Digits

\* str.lstrip("0")
RECURSIVE LStripZeros(_)
LStripZeros(s) ==
  IF s # << >> /\ Head(s) = "0" THEN LStripZeros(Tail(s)) ELSE s

----------------------------------------------------------------------------
(* _normalize_reference *)

\* The characters ref.replace(" ", "") removes.
RemovedFromReference == {" "}

\* str.replace(ch, "") for every ch of chars
RECURSIVE RemoveAll(_, _)
RemoveAll(s, chars) ==
  IF s = << >> THEN << >>
  ELSE IF Head(s) \in chars THEN RemoveAll(Tail(s), chars)
       ELSE <<Head(s)>> \o RemoveAll(Tail(s), chars)

_normalize_reference(ref) ==
  IF ~Truthy(ref) THEN None
  ELSE LET cleaned == Upper(RemoveAll(ref, RemovedFromReference))
       IN IF IsDigitStr(cleaned)
          THEN (IF LStripZeros(cleaned) = << >> THEN <<"0">> ELSE LStripZeros(cleaned))
          ELSE cleaned

----------------------------------------------------------------------------
(* _tokenize, _name_similarity *)

_STOP_WORDS == { <<"o","y">>, <<"o","y","j">>, <<"l","t","d">>, <<"t","m","i">>,
                 <<"i","n","c">>, <<"o","y",".">>, <<"o","y",",">> }

\* [A-Za-z0-9]
IsTokenChar(c) == IsLower(c) \/ IsUpper(c) \/ c \in Digits

\* _TOKEN_RE.findall(name): the maximal runs of token characters, in order.
\* cur is the run being read.
RECURSIVE FindAll(_, _)
FindAll(s, cur) ==
  IF s = << >> THEN (IF cur = << >> THEN << >> ELSE <<cur>>)
  ELSE IF IsTokenChar(Head(s)) THEN FindAll(Tail(s), Append(cur, Head(s)))
       ELSE (IF cur = << >> THEN << >> ELSE <<cur>>) \o FindAll(Tail(s), << >>)

_tokenize(name) ==
  IF ~Truthy(name) THEN {}
  ELSE LET found == FindAll(name, << >>)
           tokens == { Lower(found[i]) : i \in 1..Len(found) }
       IN { t \in tokens : t \notin _STOP_WORDS }

\* A float in [0, 1] or a score, as an exact fraction n/d, d > 0.
Frac(n, d) == [n |-> n, d |-> d]

Zero == Frac(0, 1)

FLess(a, b) == a.n * b.d < b.n * a.d

FEq(a, b) == a.n * b.d = b.n * a.d

FLeq(a, b) == a.n * b.d <= b.n * a.d

FMax(a, b) == IF FLess(a, b) THEN b ELSE a

FAdd(a, b) == Frac(a.n * b.d + b.n * a.d, a.d * b.d)

_name_similarity(a, b) ==
  LET ta == _tokenize(a)
      tb == _tokenize(b)
  IN IF ta = {} \/ tb = {} THEN Zero
     ELSE IF Cardinality(ta \cap tb) = 0 THEN Zero
          ELSE Frac(Cardinality(ta \cap tb), Cardinality(ta \cup tb))

----------------------------------------------------------------------------
(* _parse_date *)

\* The integer a "-"-separated piece of a date string denotes, as strptime's
\* %Y (four digits), %m and %d (one or two digits) read it; NotANumber for a
\* piece that is no such numeral.
YearPieces == {"2023", "2024"}

NotANumber == 0 - 1

PieceValue(p) ==
  CASE p = "2023" -> 2023 [] p = "2024" -> 2024
    [] p = "00" -> 0   [] p = "01" -> 1   [] p = "1" -> 1    [] p = "02" -> 2
    [] p = "03" -> 3   [] p = "09" -> 9   [] p = "10" -> 10  [] p = "11" -> 11
    [] p = "12" -> 12  [] p = "13" -> 13  [] p = "14" -> 14  [] p = "15" -> 15
    [] p = "16" -> 16  [] p = "24" -> 24  [] p = "25" -> 25  [] p = "28" -> 28
    [] p = "29" -> 29  [] p = "30" -> 30  [] p = "31" -> 31
    [] OTHER -> NotANumber

IsLeap(y) == (y % 4 = 0 /\ y % 100 # 0) \/ y % 400 = 0

DaysInMonth(y, m) ==
  IF m = 2 THEN (IF IsLeap(y) THEN 29 ELSE 28)
  ELSE IF m \in {4, 6, 9, 11} THEN 30 ELSE 31

RECURSIVE DaysBeforeMonth(_, _)
DaysBeforeMonth(y, m) ==
  IF m = 1 THEN 0 ELSE DaysBeforeMonth(y, m - 1) + DaysInMonth(y, m - 1)

\* datetime.toordinal(): the proleptic Gregorian day number
Ordinal(y, m, d) ==
  (y - 1) * 365 + ((y - 1) \div 4) - ((y - 1) \div 100) + ((y - 1) \div 400)
  + DaysBeforeMonth(y, m) + d

\* Whether datetime.strptime(value, "%Y-%m-%d") accepts the string.
StrptimeAccepts(value) ==
  /\ Len(value) = 3
  /\ value[1] \in YearPieces
  /\ PieceValue(value[2]) \in 1..12
  /\ PieceValue(value[3]) \in 1..DaysInMonth(PieceValue(value[1]), PieceValue(value[2]))

Parsed(o) == [tag |-> "date", ord |-> o]

NoDate == [tag |-> "none", ord |-> 0]

DateRaised == [tag |-> "raise", ord |-> 0]

\* _parse_date without its try/except: the ValueError leaves the call.
StrptimeErrorPropagates == DateRaised

\* What the except clause of _parse_date makes of strptime's ValueError.
OnStrptimeError == NoDate

_parse_date(value) ==
  IF ~Truthy(value) THEN NoDate
  ELSE IF StrptimeAccepts(value)
       THEN Parsed(Ordinal(PieceValue(value[1]), PieceValue(value[2]), PieceValue(value[3])))
       ELSE OnStrptimeError

----------------------------------------------------------------------------
(* Records.  A key a record lacks reads as None (dict.get); an attachment     *)
(* without a "data" key reads as one whose data is {}.                      *)

NoAmount == << >>

EmptyData == [supplier |-> None, issuer |-> None, recipient |-> None,
              total_amount |-> NoAmount, reference |-> None,
              due_date |-> None, invoicing_date |-> None, receiving_date |-> None]

\* att.get("data", {})
Data(att) == IF att.hasData THEN att.data ELSE EmptyData

\* "example company oy"
CompanyItself == <<"e","x","a","m","p","l","e"," ","c","o","m","p","a","n","y"," ","o","y">>

\* Whether _attachment_names keeps a value.
IsCounterparty(val) == Truthy(val) /\ Lower(val) # CompanyItself

_attachment_names(att) ==
  LET data == Data(att)
  IN SelectSeq(<<data.supplier, data.issuer, data.recipient>>, IsCounterparty)

RECURSIVE MaxSimilarity(_, _, _)
MaxSimilarity(contact, names, best) ==
  IF names = << >> THEN best
  ELSE MaxSimilarity(contact, Tail(names), FMax(best, _name_similarity(contact, Head(names))))

_best_name_similarity(transaction_contact, att) ==
  IF ~Truthy(transaction_contact) THEN Zero
  ELSE MaxSimilarity(transaction_contact, _attachment_names(att), Zero)

\* 10_000, the distance of an attachment none of whose dates parses
LargeSentinel == 10000

Abs(x) == IF x < 0 THEN 0 - x ELSE x

Min(S) == CHOOSE x \in S : \A y \in S : x <= y

AttachmentDates(att) ==
  LET data == Data(att)
  IN <<_parse_date(data.due_date), _parse_date(data.invoicing_date),
       _parse_date(data.receiving_date)>>

\* Whether parsing one of the attachment's dates raises.
DateDistanceRaises(att) ==
  \E i \in 1..3 : AttachmentDates(att)[i].tag = "raise"

\* tx_date is a parsed date's ordinal.
_date_distance_days(tx_date, att) ==
  LET candidates == AttachmentDates(att)
      distances == { Abs(candidates[i].ord - tx_date) :
                       i \in { j \in 1..3 : candidates[j].tag = "date" } }
  IN IF distances # {} THEN Min(distances) ELSE LargeSentinel

\* 1e-6 in the unit of the amounts
AmountEps == 2

\* What _is_amount_match answers when an amount is None.
AmountMissing == FALSE

_is_amount_match(tx, att) ==
  LET tx_amount == tx.amount
      att_amount == Data(att).total_amount
  IN IF tx_amount = NoAmount \/ att_amount = NoAmount THEN AmountMissing
     ELSE \/ Abs(tx_amount[1] - att_amount[1]) < AmountEps
          \/ Abs(Abs(tx_amount[1]) - att_amount[1]) < AmountEps

_reference_match(tx, att) ==
  LET tx_ref == _normalize_reference(tx.reference)
      att_ref == _normalize_reference(Data(att).reference)
  IN tx_ref # None /\ att_ref # None /\ tx_ref = att_ref

----------------------------------------------------------------------------
(* Results and candidates *)

\* A returned record, by its position in the input list
Match(i) == [kind |-> "match", idx |-> i]

\* Python's None
NoMatch == [kind |-> "none", idx |-> 0]

\* An exception leaving the call
RAISED == [kind |-> "raise", idx |-> 0]

\* The 30-day window of the date bonus
DateWindow == 30

\* date_bonus: 1 - dist / 30 when dist <= 30, else 0.0
DateBonus(dist) ==
  IF dist <= DateWindow THEN Frac(DateWindow - dist, DateWindow) ELSE Zero

\* composite = 1 + name_sim + date_bonus
Composite(name_sim, dist) == FAdd(FAdd(Frac(1, 1), name_sim), DateBonus(dist))

\* A tuple (record, composite_score, date_distance); the record is kept as its
\* position idx in the input list, id is its "id".
Candidate(i, id, score, dist) == [idx |-> i, id |-> id, score |-> score, dist |-> dist]

\* The sort key without its last component, the id
KeyBeforeWithoutId(a, b) ==
  \/ FLess(b.score, a.score)
  \/ FEq(a.score, b.score) /\ a.dist < b.dist

\* The sort key (-x[1], x[2], x[0]["id"]): whether a sorts strictly before b.
KeyBefore(a, b) ==
  \/ FLess(b.score, a.score)
  \/ FEq(a.score, b.score) /\ a.dist < b.dist
  \/ FEq(a.score, b.score) /\ a.dist = b.dist /\ a.id < b.id

\* candidates.sort(key=...); candidates[0]: the sort is stable, so the first
\* element is the earliest candidate no other sorts before.
SortedFirst(candidates) ==
  LET minimal == { i \in 1..Len(candidates) :
                     \A j \in 1..Len(candidates) : ~KeyBefore(candidates[j], candidates[i]) }
  IN candidates[Min(minimal)]

\* Returns the position of the chosen record, 0 for None.
_select_best(candidates) ==
  IF candidates # << >> THEN SortedFirst(candidates).idx ELSE 0

\* The positions 1..n of a list, in order
Indices(n) == [i \in 1..n |-> i]

----------------------------------------------------------------------------
(* find_attachment *)

\* The name-similarity threshold of find_attachment: 0.5
NameThreshold == Frac(1, 2)

\* A scan that keeps the last hit instead of returning at the first.
LastReferenceMatch(tx, atts) ==
  LET hits == { i \in 1..Len(atts) : _reference_match(tx, atts[i]) }
  IN IF hits = {} THEN 0 ELSE CHOOSE i \in hits : \A j \in hits : j <= i

\* The position of the first attachment whose reference matches, 0 if none.
FirstReferenceMatch(tx, atts) ==
  LET hits == { i \in 1..Len(atts) : _reference_match(tx, atts[i]) }
  IN IF hits = {} THEN 0 ELSE Min(hits)

\* amt_candidates of find_attachment, given the parsed transaction date
AmtCandidates(tx, atts, tx_date) ==
  LET IsAmt(i) == _is_amount_match(tx, atts[i])
      pos == SelectSeq(Indices(Len(atts)), IsAmt)
  IN [k \in 1..Len(pos) |->
        LET att == atts[pos[k]]
            dist == _date_distance_days(tx_date, att)
        IN Candidate(pos[k], att.id,
                     Composite(_best_name_similarity(tx.contact, att), dist), dist)]

\* The contact branch with `> 0.5` for `>= 0.5`
AcceptWithContactStrict(tx, atts, amt_candidates) ==
  LET Similar(c) == FLess(NameThreshold, _best_name_similarity(tx.contact, atts[c.idx]))
      filtered == SelectSeq(amt_candidates, Similar)
  IN IF filtered # << >> THEN Match(_select_best(filtered)) ELSE NoMatch

\* The contact branch of the acceptance rules
AcceptWithContact(tx, atts, amt_candidates) ==
  LET Similar(c) == FLeq(NameThreshold, _best_name_similarity(tx.contact, atts[c.idx]))
      filtered == SelectSeq(amt_candidates, Similar)
  IN IF filtered # << >> THEN Match(_select_best(filtered)) ELSE NoMatch

\* abs(c[1] - (1 + 0 + 1)) < 1e-6
IsPureAmountDateScore(score) == Abs(score.n - 2 * score.d) * 1000000 < score.d

\* The no-contact branch taking the best of several same-day candidates
AcceptWithoutContactBest(amt_candidates) ==
  LET ExactDate(c) == c.dist = 0
      exact_date == SelectSeq(amt_candidates, ExactDate)
  IN IF exact_date # << >> THEN Match(_select_best(exact_date)) ELSE NoMatch

\* The no-contact branch of the acceptance rules
AcceptWithoutContact(amt_candidates) ==
  LET ExactDate(c) == c.dist = 0
      exact_date == SelectSeq(amt_candidates, ExactDate)
      TopScore(c) == IsPureAmountDateScore(c.score)
      top_score == SelectSeq(exact_date, TopScore)
  IN IF Len(exact_date) = 1 THEN Match(exact_date[1].idx)
     ELSE IF exact_date # << >> /\ Len(top_score) = 1
          THEN Match(_select_best(exact_date))
          ELSE NoMatch

find_attachment(transaction, atts) ==
  LET ref_norm == _normalize_reference(transaction.reference)
      hit == IF Truthy(ref_norm) THEN FirstReferenceMatch(transaction, atts) ELSE 0
      tx_date == _parse_date(transaction.date)
      amt_candidates == AmtCandidates(transaction, atts, tx_date.ord)
  IN IF hit # 0 THEN Match(hit)
     ELSE IF tx_date.tag = "raise" THEN RAISED
     ELSE IF tx_date.tag = "none" THEN NoMatch
     ELSE IF \E i \in 1..Len(atts) :
                _is_amount_match(transaction, atts[i]) /\ DateDistanceRaises(atts[i])
          THEN RAISED
     ELSE IF amt_candidates = << >> THEN NoMatch
     ELSE IF Truthy(transaction.contact)
          THEN AcceptWithContact(transaction, atts, amt_candidates)
          ELSE AcceptWithoutContact(amt_candidates)

----------------------------------------------------------------------------
(* find_transaction *)

\* The composite-score threshold of find_transaction: 1.5
CompositeThreshold == Frac(3, 2)

\* A scan over the transactions that keeps the last hit
LastReferenceMatchTx(att, txs) ==
  LET hits == { i \in 1..Len(txs) : _reference_match(txs[i], att) }
  IN IF hits = {} THEN 0 ELSE CHOOSE i \in hits : \A j \in hits : j <= i

\* The position of the first transaction whose reference matches, 0 if none.
FirstReferenceMatchTx(att, txs) ==
  LET hits == { i \in 1..Len(txs) : _reference_match(txs[i], att) }
  IN IF hits = {} THEN 0 ELSE Min(hits)

\* A candidate by its amount alone, the `continue` on a missing date left out
IsTxCandidateWithoutDate(tx, att) == _is_amount_match(tx, att)

\* Whether a transaction becomes a candidate: amount match and a parsed date.
IsTxCandidate(tx, att) ==
  _is_amount_match(tx, att) /\ _parse_date(tx.date).tag = "date"

\* name_sim of find_transaction's loop
TxNameSimilarity(tx, att) ==
  IF Truthy(tx.contact) THEN MaxSimilarity(tx.contact, _attachment_names(att), Zero)
  ELSE Zero

\* candidates of find_transaction
TxCandidates(att, txs) ==
  LET IsCand(i) == IsTxCandidate(txs[i], att)
      pos == SelectSeq(Indices(Len(txs)), IsCand)
  IN [k \in 1..Len(pos) |->
        LET tx == txs[pos[k]]
            dist == _date_distance_days(_parse_date(tx.date).ord, att)
        IN Candidate(pos[k], tx.id, Composite(TxNameSimilarity(tx, att), dist), dist)]

\* Whether the loop over the transactions raises: a transaction's date parse, or,
\* once one has a date, the parse of the attachment's dates.
TxLoopRaises(att, txs) ==
  \E i \in 1..Len(txs) :
     /\ _is_amount_match(txs[i], att)
     /\ \/ _parse_date(txs[i].date).tag = "raise"
        \/ _parse_date(txs[i].date).tag = "date" /\ DateDistanceRaises(att)

\* filtered of find_transaction: the candidates with a contact and score >= 1.5
NameBranchFiltered(att, txs) ==
  LET candidates == TxCandidates(att, txs)
      HasContact(c) == Truthy(txs[c.idx].contact)
      with_contact == SelectSeq(candidates, HasContact)
      Confident(c) == FLeq(CompositeThreshold, c.score)
  IN IF _attachment_names(att) # << >> /\ with_contact # << >>
     THEN SelectSeq(with_contact, Confident)
     ELSE << >>

\* The fallback: exactly one candidate on the same day
ExactDateFallback(candidates) ==
  LET ExactDate(c) == c.dist = 0
      exact_date == SelectSeq(candidates, ExactDate)
  IN IF Len(exact_date) = 1 THEN Match(exact_date[1].idx) ELSE NoMatch

find_transaction(attachment, txs) ==
  LET att_ref == _normalize_reference(Data(attachment).reference)
      hit == IF Truthy(att_ref) THEN FirstReferenceMatchTx(attachment, txs) ELSE 0
      candidates == TxCandidates(attachment, txs)
      filtered == NameBranchFiltered(attachment, txs)
  IN IF hit # 0 THEN Match(hit)
     ELSE IF TxLoopRaises(attachment, txs) THEN RAISED
     ELSE IF candidates = << >> THEN NoMatch
     ELSE IF filtered # << >> THEN Match(SortedFirst(filtered).idx)
     ELSE ExactDateFallback(candidates)

----------------------------------------------------------------------------
(* The caller: it holds the two lists and calls the two public functions   *)
(* on them, one record at a time.                                          *)

MaxCalls == 2

MaxAtts == 2

MaxTxs == 2

NoCall == [op |-> "none", arg |-> 0, ret |-> NoMatch]

\* The list sorted in place by id, as a sort applied to the argument itself
\* would leave it.
SortedById(list) ==
  [i \in 1..Len(list) |->
     CHOOSE e \in { list[k] : k \in 1..Len(list) } :
       Cardinality({ k \in 1..Len(list) : list[k].id <= e.id }) = i]

\* What a call leaves in the list it was passed: find_attachment and
\* find_transaction build new lists (amt_candidates, filtered, exact_date,
\* candidates) and sort only those.
ListAfterCall(list) == list

\* find_attachment(transactions[i], attachments)
CallFindAttachment(i) ==
  /\ ncalls < MaxCalls
  /\ last' = [op |-> "find_attachment", arg |-> i,
              ret |-> find_attachment(transactions[i], attachments)]
  /\ attachments' = ListAfterCall(attachments)
  /\ ncalls' = ncalls + 1
  /\ UNCHANGED transactions

\* find_transaction(attachments[j], transactions)
CallFindTransaction(j) ==
  /\ ncalls < MaxCalls
  /\ last' = [op |-> "find_transaction", arg |-> j,
              ret |-> find_transaction(attachments[j], transactions)]
  /\ transactions' = ListAfterCall(transactions)
  /\ ncalls' = ncalls + 1
  /\ UNCHANGED attachments

Next ==
  \/ \E i \in 1..Len(transactions) : CallFindAttachment(i)
  \/ \E j \in 1..Len(attachments) : CallFindTransaction(j)

----------------------------------------------------------------------------
(* Inputs *)

\* The lists of 1 to n records of pool
ListsUpTo(pool, n) == UNION { [1..k -> pool] : k \in 1..n }

\* ids, unique within a list: increasing or decreasing along it
IdOrders(n) == { [i \in 1..n |-> i], [i \in 1..n |-> n + 1 - i] }

WithIds(list, ids) == [i \in 1..Len(list) |-> [list[i] EXCEPT !.id = ids[i]]]

Increasing(list) == WithIds(list, [i \in 1..Len(list) |-> i])

\* One transaction against a list of attachments, or one attachment against
\* a list of transactions.
InitFrom(TxPool, AttPool) ==
  /\ \/ /\ transactions \in { Increasing(l) : l \in ListsUpTo(TxPool, 1) }
        /\ attachments \in { Increasing(l) : l \in ListsUpTo(AttPool, MaxAtts) }
     \/ /\ transactions \in { Increasing(l) : l \in ListsUpTo(TxPool, MaxTxs) }
        /\ attachments \in { Increasing(l) : l \in ListsUpTo(AttPool, 1) }
  /\ last = NoCall
  /\ ncalls = 0

\* The same, the ids increasing or decreasing along each list
InitAnyIds(TxPool, AttPool) ==
  /\ \/ /\ transactions \in { Increasing(l) : l \in ListsUpTo(TxPool, 1) }
        /\ attachments \in { WithIds(l, ids) : l \in ListsUpTo(AttPool, MaxAtts),
                                               ids \in IdOrders(MaxAtts) }
     \/ /\ transactions \in { WithIds(l, ids) : l \in ListsUpTo(TxPool, MaxTxs),
                                                ids \in IdOrders(MaxTxs) }
        /\ attachments \in { Increasing(l) : l \in ListsUpTo(AttPool, 1) }
  /\ last = NoCall
  /\ ncalls = 0

\* A list of transactions against a list of attachments
InitBoth(TxPool, AttPool) ==
  /\ transactions \in { Increasing(l) : l \in ListsUpTo(TxPool, MaxTxs) }
  /\ attachments \in { Increasing(l) : l \in ListsUpTo(AttPool, MaxAtts) }
  /\ last = NoCall
  /\ ncalls = 0

Transaction(amount, date, reference, contact) ==
  [id |-> 0, amount |-> amount, date |-> date, reference |-> reference,
   contact |-> contact]

Attachment(supplier, issuer, recipient, total_amount, reference, due_date, invoicing_date, receiving_date) ==
  [id |-> 0, hasData |-> TRUE,
   data |-> [supplier |-> supplier, issuer |-> issuer, recipient |-> recipient,
             total_amount |-> total_amount, reference |-> reference,
             due_date |-> due_date, invoicing_date |-> invoicing_date,
             receiving_date |-> receiving_date]]

\* An attachment with no "data" key
AttachmentWithoutData == [id |-> 0, hasData |-> FALSE, data |-> EmptyData]

\* Names
AB == <<"A"," ","B">>

Feb28 == <<"2024","02","28">>

Feb30 == <<"2024","02","30">>

\* -- references: the reference varies; the rest either agrees or is absent
TxRefs == { None, <<"1","2","3">>, <<"0","0","1","2","3">>, <<"r","f","1">>, <<" ">> }

AttRefs == { None, <<"1","2","3"," ">>, <<"0","1","2","3">>, <<"R","F"," ","1">>,
             <<"1","2","3","\t">> }

RefTxPool ==
  { Transaction(<<-200>>, Feb28, r, AB) : r \in TxRefs }
  \cup { Transaction(NoAmount, Feb30, r, None) : r \in TxRefs }

RefAttPool ==
  { Attachment(AB, None, None, <<200>>, r, Feb28, None, None) : r \in AttRefs }
  \cup { Attachment(<<"c">>, None, None, <<300>>, r, None, None, None) : r \in AttRefs }

InitRef == InitFrom(RefTxPool, RefAttPool)

SpecRef == InitRef /\ [][Next]_vars

----------------------------------------------------------------------------
(* Reference primacy and reference normalization *)

\* The record the latest call was made for
CalledTx == transactions[last.arg]

CalledAtt == attachments[last.arg]

\* The positions of the attachments whose normalized reference is n
AttsWithReference(n) ==
  { i \in 1..Len(attachments) : _normalize_reference(Data(attachments[i]).reference) = n }

TxsWithReference(n) ==
  { i \in 1..Len(transactions) : _normalize_reference(transactions[i].reference) = n }

\* C1: when the record's normalized reference is non-empty and some record of
\* the list has the identical normalized reference, find_attachment and
\* find_transaction return the first such record of the list, whatever the
\* amounts, dates and names are.
C1_ReferencePrimacy ==
  /\ last.op = "find_attachment" =>
       LET n == _normalize_reference(CalledTx.reference)
       IN Truthy(n) /\ AttsWithReference(n) # {}
            => last.ret = Match(Min(AttsWithReference(n)))
  /\ last.op = "find_transaction" =>
       LET n == _normalize_reference(Data(CalledAtt).reference)
       IN Truthy(n) /\ TxsWithReference(n) # {}
            => last.ret = Match(Min(TxsWithReference(n)))

\* A transaction without amount and with an unparsable date got the second of
\* two attachments by its reference, which the first attachment lacks.
C1_Witness ==
  /\ last.op = "find_attachment"
  /\ CalledTx.amount = NoAmount
  /\ _parse_date(CalledTx.date).tag = "none"
  /\ Len(attachments) = 2
  /\ AttsWithReference(_normalize_reference(CalledTx.reference)) = {2}
  /\ CalledTx.reference # Data(attachments[2]).reference
  /\ last.ret = Match(2)

\* The whitespace characters of the references in the model
Whitespace == {" ", "\t", "\n"}

\* The normalization C6 states: all whitespace removed, uppercased, leading
\* zeros stripped from a purely numeric result.
StatedNormalization(ref) ==
  IF ~Truthy(ref) THEN None
  ELSE LET cleaned == Upper(RemoveAll(ref, Whitespace))
       IN IF IsDigitStr(cleaned)
          THEN (IF LStripZeros(cleaned) = << >> THEN <<"0">> ELSE LStripZeros(cleaned))
          ELSE cleaned

ReferencesHeld ==
  { transactions[i].reference : i \in 1..Len(transactions) }
  \cup { Data(attachments[i]).reference : i \in 1..Len(attachments) }

\* C6: _normalize_reference returns None for an empty or missing reference and
\* otherwise removes every whitespace character (space, tab, newline),
\* uppercases, and strips the leading zeros of a purely numeric result ("0" for
\* all zeros); so references differing only in whitespace, case or numeric
\* leading zeros match.
C6_NormalizationAsStated ==
  last.op # "none" =>
  /\ \A r \in ReferencesHeld : _normalize_reference(r) = StatedNormalization(r)
  /\ \A i \in 1..Len(transactions) : \A j \in 1..Len(attachments) :
       LET a == StatedNormalization(transactions[i].reference)
           b == StatedNormalization(Data(attachments[j]).reference)
       IN Truthy(a) /\ a = b => _reference_match(transactions[i], attachments[j])

----------------------------------------------------------------------------
(* Names, the threshold and the ranking *)

Mar14 == <<"2024","03","14">>

\* Counterparty names of an attachment: supplier, issuer, recipient
NameTriples ==
  { <<<<"a">>, None, None>>,
    <<<<"a"," ","c">>, None, None>>,
    <<<<"E","x","a","m","p","l","e"," ","C","o","m","p","a","n","y"," ","O","y">>,
      <<"b",","," ","a">>, None>> }

NameTxPool ==
  { Transaction(<<-200>>, d, None, c) :
      d \in {Feb28, Mar14}, c \in {AB, <<"a"," ","O","y">>, <<"c">>} }
  \cup { Transaction(<<-200>>, Feb28, None, <<"O","y">>) }

NameAttPool ==
  { Attachment(n[1], n[2], n[3], <<200>>, None, d, None, None) :
      n \in NameTriples, d \in {Feb28, Mar14} }
  \cup { Attachment(<<"c">>, None, <<"a"," ","b"," ","c">>, <<201>>, None, None, None, Feb30),
         Attachment(AB, None, None, <<204>>, None, Feb28, None, None) }

InitName == InitFrom(NameTxPool, NameAttPool)

SpecName == InitName /\ [][Next]_vars

\* The positions of the attachments that match the called transaction's amount
\* and reach name similarity 0.5 with its contact
SimilarAtts ==
  { i \in 1..Len(attachments) :
      /\ _is_amount_match(CalledTx, attachments[i])
      /\ FLeq(Frac(1, 2), _best_name_similarity(CalledTx.contact, attachments[i])) }

\* The latest call is find_attachment, its reference phase found nothing and
\* the transaction has a parseable date.
PastReferencePhase ==
  /\ last.op = "find_attachment"
  /\ \A i \in 1..Len(attachments) : ~_reference_match(CalledTx, attachments[i])
  /\ _parse_date(CalledTx.date).tag = "date"

\* C2: for a transaction with a contact, a parseable date and no reference
\* match, find_attachment returns an attachment if and only if some
\* amount-matching attachment has name similarity >= 0.5 with the contact
\* (0.5 itself is accepted), and what it returns is one of those.
C2_ThresholdBoundary ==
  PastReferencePhase /\ Truthy(CalledTx.contact) =>
    /\ last.ret.kind \in {"match", "none"}
    /\ last.ret.kind = "match" <=> SimilarAtts # {}
    /\ last.ret.kind = "match" => last.ret.idx \in SimilarAtts

\* An attachment of similarity exactly 0.5 was returned.
C2_WitnessAccepted ==
  /\ PastReferencePhase /\ Truthy(CalledTx.contact)
  /\ last.ret.kind = "match"
  /\ FEq(_best_name_similarity(CalledTx.contact, attachments[last.ret.idx]), Frac(1, 2))

----------------------------------------------------------------------------
(* Ranking *)

RankTxPool ==
  { Transaction(<<-200>>, d, None, c) :
      d \in {Feb28, Mar14}, c \in {AB, <<"a"," ","O","y">>} }

RankAttPool ==
  { Attachment(n[1], n[2], n[3], <<200>>, None, d, None, None) :
      n \in { <<<<"a">>, None, None>>, <<None, <<"b",","," ","a">>, None>> },
      d \in {Feb28, Mar14} }
  \cup { Attachment(<<"a"," ","c">>, None, None, <<200>>, None, Feb28, None, None) }

InitRank == InitAnyIds(RankTxPool, RankAttPool)

SpecRank == InitRank /\ [][Next]_vars

\* (-score, dateDistance, id) of a before that of b, lexicographically
RanksBefore(a, b) ==
  \/ a.score.n * b.score.d > b.score.n * a.score.d
  \/ /\ a.score.n * b.score.d = b.score.n * a.score.d
     /\ \/ a.dist < b.dist
        \/ a.dist = b.dist /\ a.id < b.id

\* score = 1 + nameSimilarity + dateBonus of a pair, with its distance and id
RankOf(tx, att, id) ==
  LET dist == _date_distance_days(_parse_date(tx.date).ord, att)
      sim == IF Truthy(tx.contact)
             THEN MaxSimilarity(tx.contact, _attachment_names(att), Zero) ELSE Zero
  IN [score |-> FAdd(FAdd(Frac(1, 1), sim), DateBonus(dist)), dist |-> dist, id |-> id]

ScoreInRange(r) == r.score.d <= r.score.n /\ r.score.n <= 3 * r.score.d

\* The transactions find_transaction's name branch accepts for the called
\* attachment: amount match, parseable date, a contact, score >= 1.5
ConfidentTxs ==
  { i \in 1..Len(transactions) :
      /\ _is_amount_match(transactions[i], CalledAtt)
      /\ _parse_date(transactions[i].date).tag = "date"
      /\ Truthy(transactions[i].contact)
      /\ LET r == RankOf(transactions[i], CalledAtt, transactions[i].id)
         IN 2 * r.score.n >= 3 * r.score.d }

\* The latest call is find_transaction and it got to its name branch: no
\* reference match, counterparty names on the attachment, a confident candidate.
InNameBranch ==
  /\ last.op = "find_transaction"
  /\ \A i \in 1..Len(transactions) : ~_reference_match(transactions[i], CalledAtt)
  /\ _attachment_names(CalledAtt) # << >>
  /\ ConfidentTxs # {}

ListOrders(n) == { f \in [1..n -> 1..n] : \A i, j \in 1..n : f[i] = f[j] => i = j }

Permuted(list, f) == [i \in 1..Len(list) |-> list[f[i]]]

\* ret, a result on the list permuted by f, names the record ret0 names on the
\* list itself.
SameRecord(ret, f, ret0) ==
  /\ ret.kind = ret0.kind
  /\ ret.kind = "match" => f[ret.idx] = ret0.idx

\* C10: what find_attachment's contact branch and find_transaction's name
\* branch return is the one accepted candidate that is least under
\* (-score, dateDistance, id), score = 1 + nameSimilarity + dateBonus in [1, 3];
\* with unique ids the result does not depend on the order of the list.
C10_DeterministicRanking ==
  /\ PastReferencePhase /\ Truthy(CalledTx.contact) /\ last.ret.kind = "match" =>
       LET best == RankOf(CalledTx, attachments[last.ret.idx], attachments[last.ret.idx].id)
       IN /\ last.ret.idx \in SimilarAtts
          /\ ScoreInRange(best)
          /\ \A c \in SimilarAtts \ {last.ret.idx} :
               RanksBefore(best, RankOf(CalledTx, attachments[c], attachments[c].id))
          /\ \A f \in ListOrders(Len(attachments)) :
               SameRecord(find_attachment(CalledTx, Permuted(attachments, f)), f, last.ret)
  /\ InNameBranch =>
       /\ last.ret.kind = "match"
       /\ last.ret.idx \in ConfidentTxs
       /\ LET best == RankOf(transactions[last.ret.idx], CalledAtt, transactions[last.ret.idx].id)
          IN /\ ScoreInRange(best)
             /\ \A c \in ConfidentTxs \ {last.ret.idx} :
                  RanksBefore(best, RankOf(transactions[c], CalledAtt, transactions[c].id))
       /\ \A f \in ListOrders(Len(transactions)) :
            SameRecord(find_transaction(CalledAtt, Permuted(transactions, f)), f, last.ret)

\* Two accepted attachments tie on score and on distance, and the one with the
\* smaller id, second in the list, was returned.
C10_Witness ==
  /\ PastReferencePhase /\ Truthy(CalledTx.contact)
  /\ Len(attachments) = 2
  /\ SimilarAtts = {1, 2}
  /\ LET a == RankOf(CalledTx, attachments[1], attachments[1].id)
         b == RankOf(CalledTx, attachments[2], attachments[2].id)
     IN FEq(a.score, b.score) /\ a.dist = b.dist
  /\ attachments[2].id < attachments[1].id
  /\ last.ret = Match(2)

\* C8: whenever find_transaction returns a transaction through its name branch
\* (counterparty names on the attachment, a contact on the candidate, score >=
\* 1.5), the transaction's contact has name similarity >= 0.5 with one of the
\* attachment's counterparty names.
C8_CompositeThresholdIsNameThreshold ==
  InNameBranch /\ last.ret.kind = "match" =>
    FLeq(Frac(1, 2),
         MaxSimilarity(transactions[last.ret.idx].contact, _attachment_names(CalledAtt), Zero))

----------------------------------------------------------------------------
(* Transactions without a contact *)

DateTriples ==
  { <<Feb28, None, None>>, <<Feb30, None, Feb28>>, <<Mar14, None, None>>,
    <<None, None, None>> }

NoContactTxPool ==
  { Transaction(<<-200>>, Feb28, r, c) :
      r \in {None, <<"1","2","3">>}, c \in {None, << >>} }

NoContactAttPool ==
  { Attachment(AB, None, None, a, None, d[1], d[2], d[3]) :
      a \in {<<200>>, <<204>>}, d \in DateTriples }
  \cup { Attachment(AB, None, None, <<204>>, <<"1","2","3"," ">>, None, None, None) }

InitNoContact == InitFrom(NoContactTxPool, NoContactAttPool)

SpecNoContact == InitNoContact /\ [][Next]_vars

\* One of the attachment's three dates parses to the day of the transaction.
OnSameDay(tx, att) ==
  \E k \in 1..3 : AttachmentDates(att)[k] = _parse_date(tx.date)

\* The amount-matching attachments on the day of the called transaction
SameDayAtts ==
  { i \in 1..Len(attachments) :
      _is_amount_match(CalledTx, attachments[i]) /\ OnSameDay(CalledTx, attachments[i]) }

\* C3: for a transaction without a contact (past the reference phase), two or
\* more amount-matching attachments at date distance 0 give none, and exactly one
\* gives that attachment: it is matched if and only if exactly one
\* amount-matching attachment falls on the same day.
C3_AmbiguityRejection ==
  PastReferencePhase /\ ~Truthy(CalledTx.contact) =>
    /\ Cardinality(SameDayAtts) >= 2 => last.ret = NoMatch
    /\ Cardinality(SameDayAtts) = 1 => last.ret.kind = "match" /\ last.ret.idx \in SameDayAtts
    /\ last.ret.kind = "match" <=> Cardinality(SameDayAtts) = 1

\* Two amount-matching attachments on the transaction's day, and none returned
C3_Witness ==
  /\ PastReferencePhase /\ ~Truthy(CalledTx.contact)
  /\ Cardinality(SameDayAtts) = 2
  /\ last.ret = NoMatch

----------------------------------------------------------------------------
(* Transactions without a usable date *)

DateTxPool ==
  { Transaction(<<-200>>, d, r, c) :
      d \in {Feb28, None, Feb30}, r \in {None, <<"1","2","3">>}, c \in {AB, None} }

DateAttPool ==
  { Attachment(<<"a">>, None, None, <<200>>, r, d, None, None) :
      r \in {None, <<"1","2","3"," ">>}, d \in {Feb28, Mar14} }

InitDate == InitFrom(DateTxPool, DateAttPool)

SpecDate == InitDate /\ [][Next]_vars

HasDate(tx) == _parse_date(tx.date).tag = "date"

\* The list without its element at position d
Without(list, d) == [i \in 1..(Len(list) - 1) |-> IF i < d THEN list[i] ELSE list[i + 1]]

\* ret, a result on the list without position d, names the record ret0 names
\* on the whole list.
SameWithout(ret, d, ret0) ==
  /\ ret.kind = ret0.kind
  /\ ret.kind = "match" => (IF ret.idx < d THEN ret.idx ELSE ret.idx + 1) = ret0.idx

\* C9: find_attachment gives none for a transaction without a parseable date
\* whose reference matches no attachment; find_transaction returns a transaction
\* without a parseable date only by its reference, and otherwise returns what
\* it returns for the list without that transaction.
C9_MissingDateAsymmetry ==
  /\ last.op = "find_attachment" /\ ~HasDate(CalledTx) =>
       LET n == _normalize_reference(CalledTx.reference)
       IN ~(Truthy(n) /\ AttsWithReference(n) # {}) => last.ret = NoMatch
  /\ last.op = "find_transaction" =>
       \A d \in { i \in 1..Len(transactions) : ~HasDate(transactions[i]) } :
          LET n == _normalize_reference(Data(CalledAtt).reference)
          IN /\ last.ret = Match(d) =>
                  Truthy(n) /\ _normalize_reference(transactions[d].reference) = n
             /\ last.ret # Match(d) =>
                  SameWithout(find_transaction(CalledAtt, Without(transactions, d)), d, last.ret)

\* The first of two transactions has no parseable date but the amount and a
\* similar contact; the second one was returned.
C9_Witness ==
  /\ last.op = "find_transaction"
  /\ Len(transactions) = 2
  /\ ~HasDate(transactions[1])
  /\ _is_amount_match(transactions[1], CalledAtt)
  /\ Truthy(transactions[1].contact)
  /\ ~_reference_match(transactions[1], CalledAtt)
  /\ last.ret = Match(2)

----------------------------------------------------------------------------
(* Malformed records: every optional field missing, empty or unparsable *)

\* Missing (None) and empty ("")
Absent == {None, << >>}

NotADate == <<"n/a">>

MalformedTxPool ==
  { Transaction(a, d, e, e) :
      a \in {NoAmount, <<-200>>}, e \in Absent, d \in {None, << >>, Feb30, Feb28} }

MalformedAttPool ==
  { Attachment(e, e, e, a, e, d[1], d[2], d[3]) :
      e \in Absent, a \in {NoAmount, <<200>>},
      d \in { <<None, << >>, None>>, <<Feb30, NotADate, << >>>>, <<NotADate, None, Feb28>> } }
  \cup { AttachmentWithoutData }

InitMalformed == InitFrom(MalformedTxPool, MalformedAttPool)

SpecMalformed == InitMalformed /\ [][Next]_vars

\* None of the attachment's three dates parses.
Dateless(att) == \A k \in 1..3 : AttachmentDates(att)[k].tag # "date"

\* C5: on records whose optional fields are missing, empty or unparsable dates
\* the two functions return a record of the list or none and never raise; an
\* attachment none of whose dates parses gets no date bonus and is never at
\* date distance 0, and a record without a parseable date is not returned as a
\* same-day match.
C5_NoExceptionOnMalformedRecords ==
  /\ last.ret.kind \in {"match", "none"}
  /\ last.op = "find_attachment" /\ last.ret.kind = "match" =>
       last.ret.idx \in 1..Len(attachments)
  /\ last.op = "find_transaction" /\ last.ret.kind = "match" =>
       last.ret.idx \in 1..Len(transactions)
  /\ \A i \in 1..Len(transactions) : \A j \in 1..Len(attachments) :
       HasDate(transactions[i]) /\ Dateless(attachments[j]) =>
         LET dist == _date_distance_days(_parse_date(transactions[i].date).ord, attachments[j])
         IN dist # 0 /\ DateBonus(dist).n = 0
  /\ PastReferencePhase /\ last.ret.kind = "match" => ~Dateless(attachments[last.ret.idx])
  /\ last.op = "find_transaction" /\ last.ret.kind = "match"
       /\ ~_reference_match(transactions[last.ret.idx], CalledAtt)
       => HasDate(transactions[last.ret.idx]) /\ ~Dateless(CalledAtt)

\* A transaction with a date met an amount-matching attachment whose dates are
\* an impossible day, a non-date and an empty string: the call returned none.
C5_Witness ==
  /\ last.op = "find_attachment"
  /\ HasDate(CalledTx)
  /\ \E j \in 1..Len(attachments) :
       /\ _is_amount_match(CalledTx, attachments[j])
       /\ Data(attachments[j]).due_date = Feb30
       /\ Data(attachments[j]).invoicing_date = NotADate
  /\ \A j \in 1..Len(attachments) : Dateless(attachments[j])
  /\ last.ret = NoMatch

----------------------------------------------------------------------------
(* Both directions: repeated calls, and the way back from a match *)

PairTxPool ==
  { Transaction(<<-200>>, Feb28, r, c) :
      r \in {None, <<"1","2","3">>}, c \in {AB, <<"a"," ","O","y">>} }

PairAttPool ==
  { Attachment(<<"a">>, None, None, <<200>>, r, d, None, None) :
      r \in {None, <<"0","1","2","3">>}, d \in {Feb28, Mar14} }

Init == InitAnyIds(PairTxPool, PairAttPool)

Spec == Init /\ [][Next]_vars

SymTxPool ==
  { Transaction(<<-200>>, Feb28, None, AB),
    Transaction(<<-200>>, Feb28, None, <<"a"," ","O","y">>),
    Transaction(<<-200>>, Feb28, <<"1","2","3">>, AB) }

SymAttPool ==
  { Attachment(<<"a">>, None, None, <<200>>, None, Feb28, None, None),
    Attachment(<<"a">>, None, None, <<200>>, None, Mar14, None, None),
    Attachment(<<"a">>, None, None, <<200>>, <<"0","1","2","3">>, Feb28, None, None) }

InitSym == InitBoth(SymTxPool, SymAttPool)

SpecSym == InitSym /\ [][Next]_vars

SameReference(tx, att) ==
  /\ Truthy(_normalize_reference(tx.reference))
  /\ _normalize_reference(tx.reference) = _normalize_reference(Data(att).reference)

\* tx and att match on the amount, tx has a parseable date and its contact has
\* name similarity >= 0.5 with att.
SameAmountAndName(tx, att) ==
  /\ _is_amount_match(tx, att)
  /\ HasDate(tx)
  /\ FLeq(Frac(1, 2), _best_name_similarity(tx.contact, att))

\* find_attachment returned an attachment for the called transaction on an
\* unambiguous signal.
ConfidentMatch ==
  /\ last.op = "find_attachment"
  /\ last.ret.kind = "match"
  /\ \/ SameReference(CalledTx, attachments[last.ret.idx])
     \/ SameAmountAndName(CalledTx, attachments[last.ret.idx])

\* C4 as stated: if find_attachment(tx, atts) returns att on an unambiguous
\* signal (equal non-empty normalized reference, or amount match with a
\* parseable date and name similarity >= 0.5), find_transaction(att, txs)
\* returns tx.
C4_SymmetryAsStated ==
  ConfidentMatch =>
    find_transaction(attachments[last.ret.idx], transactions) = Match(last.arg)

\* The transactions that come before tx (at position t) on the way back from
\* att: with att's reference, those earlier in the list (any, when tx itself
\* does not carry it); else the dated, amount-matching, contact-carrying ones
\* of score >= 1.5 that rank before tx.
ComesBefore(t, att) ==
  LET tx == transactions[t]
      Confident(i) ==
        /\ _is_amount_match(transactions[i], att)
        /\ HasDate(transactions[i])
        /\ Truthy(transactions[i].contact)
        /\ LET r == RankOf(transactions[i], att, transactions[i].id)
           IN 2 * r.score.n >= 3 * r.score.d
  IN { i \in 1..Len(transactions) \ {t} :
         \/ SameReference(transactions[i], att) /\ (SameReference(tx, att) => i < t)
         \/ /\ ~SameReference(tx, att)
            /\ Confident(i)
            /\ RanksBefore(RankOf(transactions[i], att, transactions[i].id),
                           RankOf(tx, att, tx.id)) }

\* C4, amended: on such a match find_transaction(att, txs) returns a
\* transaction, and it returns tx unless another transaction comes before tx.
C4_SymmetryUnlessPreceded ==
  ConfidentMatch =>
    LET back == find_transaction(attachments[last.ret.idx], transactions)
    IN /\ back.kind = "match"
       /\ ComesBefore(last.arg, attachments[last.ret.idx]) = {} => back = Match(last.arg)
       /\ ComesBefore(last.arg, attachments[last.ret.idx]) # {} =>
            back.idx \in ComesBefore(last.arg, attachments[last.ret.idx])

\* The second of two transactions got its attachment by amount and name, no
\* reference involved, and the way back returns it.
C4_Witness ==
  /\ ConfidentMatch
  /\ Len(transactions) = 2 /\ last.arg = 2
  /\ ~SameReference(CalledTx, attachments[last.ret.idx])
  /\ _is_amount_match(transactions[1], attachments[last.ret.idx])
  /\ find_transaction(attachments[last.ret.idx], transactions) = Match(2)

====
